---------------------------- MODULE Spec2Model ----------------------------
(***************************************************************************)
(* State-machine model of qiskit_ibm_runtime's RuntimeSession              *)
(* (runtime_session.py) running against the in-process fake runtime client *)
(* (test/ibm/runtime/fake_runtime_client.py): the program and job          *)
(* registries, the pending job-class queue, and one progression task per   *)
(* job on the shared thread-pool executor; and of the assignments to an    *)
(* EstimatorOptions instance (options/estimator_options.py).               *)
(***************************************************************************)
EXTENDS Integers, Sequences, FiniteSets, TLC

\* ------------------------------------------------------------------ bounds
\* Jobs the job-lifecycle specification (Spec) submits.
MaxJobs == 1
\* Jobs one session submits in SpecSession.
MaxWrites == 3
\* Jobs submitted, and length of a list handed to set_job_classes, in SpecFifo.
MaxRuns == 2
MaxClasses == 2
\* The run_time a test puts in job_kwargs, in seconds; the longest timeout
\* handed to read(), the last instant of the clock and the jobs submitted
\* in SpecTimed.
run_time == 2
MaxTimeout == 3
MaxTime == 4
MaxTimedWrites == 1
\* Jobs one session submits in SpecInfo.
MaxInfoWrites == 1
\* Program names in use in SpecRegistry.
MaxPrograms == 2
\* The largest level a caller tries to assign in SpecOptions.
MaxLevel == 4
MaxFairWrites == 1
MaxInputWrites == 2
MaxThreads == 2
MaxOverlapWrites == 3
MaxLimit == 2

\* ------------------------------------------------------------ Python values
\* Python's None.
None == "None"
\* An instance attribute that no statement has assigned yet.
NoAttr == "<unassigned>"
\* json.dumps("foo"), "Kaboom!", json.dumps(custom_result) with custom_result = "bar".
Foo == "\"foo\""
Kaboom == "Kaboom!"
Bar == "\"bar\""

\* uuid.uuid4().hex: a fresh identifier per call; the n-th call's value.
Hex == <<"a1", "b2", "c3", "d4", "e5", "f6", "a7", "b8">>
uuid4(n) == Hex[n]
JobIds == {Hex[n] : n \in 1..Len(Hex)}

\* The job classes of the fake client.
Base == "BaseFakeRuntimeJob"
Failed == "FailedRuntimeJob"
RanTooLong == "FailedRanTooLongRuntimeJob"
Cancelable == "CancelableRuntimeJob"
CustomResult == "CustomResultRuntimeJob"
Timed == "TimedRuntimeJob"
JobClasses == {Base, Failed, RanTooLong, Cancelable, CustomResult, Timed}

\* Values a test hands to set_final_status: None, or the status a job is to
\* be created in as its final one.
FinalStatuses == {None, "COMPLETED", "FAILED", "CANCELLED", "CANCELLED - RAN TOO LONG"}

\* Names and descriptions a test gives its programs; the spec argument of
\* program_create is a dict or left at its default, None.
Names == <<"p1", "p2", "p3", "p4">>
ProgramNames == {Names[n] : n \in 1..MaxPrograms}
Descriptions == {"d1", "D2"}

\* The characters of those texts, and the texts a caller searches for.
Chars == {"p", "d", "D", "1", "2", "3", "4"}
Searches == {"", "p", "d", "D2", "p1"}
SpecDict == "{}"

\* The two shapes of job_kwargs a client is constructed with.
NoKwargs == "{}"
RunTimeKwargs == "{run_time}"

\* An option is Unset (options.utils.Unset: the caller did not specify it)
\* or holds a value; a level holds its integer, a coupling map is held by
\* its number of edges.
Unset == [set |-> FALSE, v |-> 0]
Value(v) == [set |-> TRUE, v |-> v]

\* The options a session is constructed with: None (the default), a dict
\* as the front ends build it, or a RuntimeOptions object, whose
\* backend_name is None unless given.
DictOptions == "{'backend_name': 'ibmq_qasm_simulator', 'image': 'expval:748ef50'}"
RuntimeOptionsDefault == "RuntimeOptions()"
RuntimeOptionsBackend == "RuntimeOptions(backend_name='ibmq_qasm_simulator')"
SessionOptions == {None, DictOptions, RuntimeOptionsDefault, RuntimeOptionsBackend}

\* A dict of inputs is held by the value under each key, Absent for a key
\* the dict does not have.
Absent == "absent"
Keys == {"circuits", "parameters"}

\* The inputs dict a front end hands to the session, and the keyword
\* arguments a caller passes to write.
Inputs == [circuits |-> "c1", parameters |-> Absent]
NoOverrides == [circuits |-> Absent, parameters |-> Absent]
Overrides == [circuits : {Absent, "c2"}, parameters : {Absent, "p1", "p2"}]

\* The threads that call the session, and a thread that is not inside write.
Threads == 1..MaxThreads
Idle == [pc |-> "idle", job |-> None]

\* No result wait in progress.
NoWait == [open |-> FALSE, since |-> 0, timeout |-> 0]

VARIABLES
    \* RuntimeSession
    _active,        \* self._active
    _session_id,    \* self._session_id
    _job,           \* self._job: the id of the stored job, or None
    scope,          \* where the with-statement using the session stands
    closed,         \* whether close() was called or a with-block was left
    runs,           \* the calls of service.run that returned a job: the session_id
                    \* and inputs passed, the job_id returned, the kwargs of the write
    _options,       \* self._options
    _initial_inputs, \* self._initial_inputs
    \* BaseFakeRuntimeClient
    _jobs,          \* self._jobs: job id -> job object
    _job_classes,   \* self._job_classes
    _final_status,  \* self._final_status
    _job_kwargs,    \* self._job_kwargs
    uuids,          \* how many ids uuid4 has handed out
    set_classes,    \* the list the queue was last set to
    used,           \* the class each program_run since then constructed
    _programs,      \* self._programs: program id -> program object
    program_ids,    \* the keys of self._programs in the order of the dict
    \* time
    now,            \* the clock, in seconds
    wake,           \* job id -> when the sleep of its TimedRuntimeJob task ends
    wait,           \* the blocking result wait of the caller
    \* EstimatorOptions
    optimization_level,
    resilience_level,
    _is_simulator,
    coupling_map,   \* self.simulator.coupling_map
    \* the callers
    writers,        \* per calling thread: where it is in write, and the job it got
    out             \* what the last call returned or raised

\* What RuntimeSession.__init__ stores and no method of the session rebinds.
ctorVars == <<_options, _initial_inputs>>
sessionVars == <<_active, _session_id, _job, scope, closed, runs, _options, _initial_inputs,
                 writers>>
clientVars == <<_jobs, _job_classes, _final_status, _job_kwargs, uuids, set_classes, used,
                _programs, program_ids>>
timeVars == <<now, wake, wait>>
optionVars == <<optimization_level, resilience_level, _is_simulator, coupling_map>>
vars == <<_active, _session_id, _job, scope, closed, runs, _options, _initial_inputs, writers,
          _jobs, _job_classes, _final_status, _job_kwargs, uuids, set_classes, used,
          _programs, program_ids, now, wake, wait,
          optimization_level, resilience_level, _is_simulator, coupling_map, out>>

Returned(op, id, val) == [op |-> op, id |-> id, err |-> None, val |-> val]
Raised(op, id, err) == [op |-> op, id |-> id, err |-> err, val |-> None]


\* ------------------------------------------------------- fake runtime jobs
\* The class attribute _job_progress of each job class.
\* (variant: no class lists a final status)
_job_progress_never_final(cls) == <<"QUEUED", "RUNNING">>
_job_progress(cls) ==
    CASE cls = Failed -> <<"QUEUED", "RUNNING", "FAILED">>
      [] cls = RanTooLong -> <<"QUEUED", "RUNNING", "CANCELLED - RAN TOO LONG">>
      [] cls = Cancelable -> <<"QUEUED", "RUNNING">>
      [] OTHER -> <<"QUEUED", "RUNNING", "COMPLETED">>

\* The statements of a progression task that write the job, in program order.
\* "status" is `self._status = val`; "result" is
\* `if self._status == when: self._result = val`.
SetStatus(val) == [kind |-> "status", when |-> None, val |-> val]
SetResultIf(when, val) == [kind |-> "result", when |-> when, val |-> val]

\* BaseFakeRuntimeJob._auto_progress: one status write per entry of
\* _job_progress (each after a sleep), then the result on COMPLETED.
BaseAutoProgress(cls) ==
    [i \in 1..Len(_job_progress(cls)) |-> SetStatus(_job_progress(cls)[i])]
        \o <<SetResultIf("COMPLETED", Foo)>>

\* _auto_progress as each class overrides it.
_auto_progress(cls) ==
    CASE cls = Failed -> BaseAutoProgress(cls) \o <<SetResultIf("FAILED", Kaboom)>>
      [] cls = RanTooLong ->
            BaseAutoProgress(cls) \o <<SetResultIf("CANCELLED - RAN TOO LONG", Kaboom)>>
      [] cls = CustomResult -> BaseAutoProgress(cls) \o <<SetResultIf("COMPLETED", Bar)>>
      [] cls = Timed ->
            <<SetStatus("RUNNING"), SetStatus("COMPLETED"), SetResultIf("COMPLETED", Foo)>>
      [] OTHER -> BaseAutoProgress(cls)

\* Whether the constructor of cls accepts the client's job_kwargs:
\* TimedRuntimeJob pops 'run_time' (KeyError without it), every other class
\* takes no such keyword (TypeError with it).
AcceptsKwargs(cls, kwargs) == (cls = Timed) <=> (kwargs = RunTimeKwargs)

\* The job object __init__ builds.  With no final status the progression
\* task is handed to the executor and _result starts as None; with
\* final_status "COMPLETED" the result is set at once; with any other final
\* status neither _future nor _result is ever assigned.
\* (variant: the result is set at construction whatever the final status)
NewJob_result_always(cls, final_status) ==
    [cls |-> cls,
     _status |-> IF final_status = None THEN "QUEUED" ELSE final_status,
     _future |-> IF final_status = None THEN "PENDING" ELSE NoAttr,
     _result |-> Foo,
     _cancelled |-> FALSE,
     pc |-> 0]
NewJob(cls, final_status) ==
    [cls |-> cls,
     _status |-> IF final_status = None THEN "QUEUED" ELSE final_status,
     _future |-> IF final_status = None THEN "PENDING" ELSE NoAttr,
     _result |-> IF final_status = None THEN None
                 ELSE IF final_status = "COMPLETED" THEN Foo ELSE NoAttr,
     _cancelled |-> FALSE,
     pc |-> 0]

\* to_dict()['status']: CancelableRuntimeJob overrides the stored status
\* once _cancelled is set.
\* (variant: to_dict not overridden)
to_dict_status_stored(j) == j._status
to_dict_status(j) ==
    IF j.cls = Cancelable /\ j._cancelled THEN "CANCELLED" ELSE j._status

\* ------------------------------------------------------ fake runtime client
\* job_get(job_id): _get_job raises 404 for an unknown id.
job_get(id) ==
    IF id \notin DOMAIN _jobs THEN Raised("job_get", id, "404")
    ELSE Returned("job_get", id, to_dict_status(_jobs[id]))

\* job_results(job_id): result() returns self._result.
job_results(id) ==
    IF id \notin DOMAIN _jobs THEN Raised("job_results", id, "404")
    ELSE IF _jobs[id]._result = NoAttr THEN Raised("job_results", id, "AttributeError")
    ELSE Returned("job_results", id, _jobs[id]._result)

\* Future.cancel(): a task the executor has not started is cancelled and
\* never runs; a running or finished one is left alone.
FutureCancel(future) == IF future = "PENDING" THEN "CANCELLED" ELSE future

\* CancelableRuntimeJob.cancel().
\* (variant: cancel overwrites the stored status instead of raising a flag)
cancel_sets_status(j) ==
    [j EXCEPT !._future = FutureCancel(j._future), !._status = "CANCELLED"]
cancel(j) == [j EXCEPT !._future = FutureCancel(j._future), !._cancelled = TRUE]

\* What job_cancel(job_id) raises: 404 for an unknown id; AttributeError for
\* a class without cancel(), or for a job built with a final status, which
\* has no _future.
job_cancel_error(id) ==
    IF id \notin DOMAIN _jobs THEN "404"
    ELSE IF _jobs[id].cls # Cancelable THEN "AttributeError"
    ELSE IF _jobs[id]._future = NoAttr THEN "AttributeError"
    ELSE None

\* set_job_classes(classes): a single class is wrapped into a list.
AsList(is_list, classes) == IF is_list THEN classes ELSE <<classes>>

SetJobClasses(is_list, classes) ==
    /\ _job_classes' = AsList(is_list, classes)
    /\ set_classes' = AsList(is_list, classes)
    /\ used' = <<>>
    /\ out' = Returned("set_job_classes", None, None)
    /\ UNCHANGED <<_jobs, _final_status, _job_kwargs, uuids, _programs, program_ids>>
    /\ UNCHANGED <<sessionVars, timeVars, optionVars>>

\* set_final_status(final_status).
SetFinalStatus(final_status) ==
    /\ _final_status' = final_status
    /\ out' = Returned("set_final_status", None, None)
    /\ UNCHANGED <<_jobs, _job_classes, _job_kwargs, uuids, set_classes, used, _programs, program_ids>>
    /\ UNCHANGED <<sessionVars, timeVars, optionVars>>

\* program_run, line 313: the class the next job is built from, and what is
\* left of the queue.
\* (variant: pop() takes the last entry)
PopClass_last(classes) == IF Len(classes) > 0 THEN classes[Len(classes)] ELSE Base
PopClass(classes) == IF Len(classes) > 0 THEN Head(classes) ELSE Base
PopRest(classes) == IF Len(classes) > 0 THEN Tail(classes) ELSE classes

\* program_run: a fresh id, the head of the queue (or the default class), the
\* job built with the client's final status and kwargs, and the job stored.
\* A constructor that rejects the kwargs raises after the class was popped.
program_run_id == uuid4(uuids + 1)
program_run_raises == ~AcceptsKwargs(PopClass(_job_classes), _job_kwargs)
program_run ==
    /\ uuids' = uuids + 1
    /\ _job_classes' = PopRest(_job_classes)
    /\ used' = Append(used, PopClass(_job_classes))
    /\ _jobs' = IF program_run_raises THEN _jobs
                ELSE _jobs @@ (program_run_id :>
                                   NewJob(PopClass(_job_classes), _final_status))
    /\ UNCHANGED <<_final_status, _job_kwargs, set_classes, _programs, program_ids>>

ProgramRun(limit) ==
    /\ uuids < limit
    /\ program_run
    /\ out' = IF program_run_raises THEN Raised("program_run", None, "TypeError")
              ELSE Returned("program_run", None, program_run_id)
    /\ UNCHANGED <<sessionVars, timeVars, optionVars>>

\* The executor starts a task it holds: the worker thread enters _auto_progress.
StartTask(id) ==
    /\ id \in DOMAIN _jobs
    /\ _jobs[id]._future = "PENDING"
    /\ _jobs' = [_jobs EXCEPT ![id]._future = "RUNNING"]
    /\ UNCHANGED <<_job_classes, _final_status, _job_kwargs, uuids, set_classes, used, _programs, program_ids>>
    /\ UNCHANGED <<sessionVars, timeVars, optionVars>>
    /\ UNCHANGED out

\* The effect of one statement of _auto_progress on the job.
Execute(stmt, j) ==
    IF stmt.kind = "status" THEN [j EXCEPT !._status = stmt.val]
    ELSE IF j._status = stmt.when THEN [j EXCEPT !._result = stmt.val]
    ELSE j

\* A running task executes its next statement; after the last one the
\* function returns and the future is finished.
TaskStep(id) ==
    /\ id \in DOMAIN _jobs
    /\ _jobs[id]._future = "RUNNING"
    /\ LET j == _jobs[id]
           prog == _auto_progress(j.cls)
           after == [Execute(prog[j.pc + 1], j) EXCEPT !.pc = j.pc + 1]
       IN  _jobs' = [_jobs EXCEPT ![id] =
                        IF after.pc = Len(prog)
                        THEN [after EXCEPT !._future = "FINISHED"] ELSE after]
    /\ UNCHANGED <<_job_classes, _final_status, _job_kwargs, uuids, set_classes, used, _programs, program_ids>>
    /\ UNCHANGED <<sessionVars, timeVars, optionVars>>
    /\ UNCHANGED out

\* job_get and job_results are reads of the registry.
JobGet(id) ==
    /\ out' = job_get(id)
    /\ UNCHANGED <<clientVars, sessionVars, timeVars, optionVars>>

JobResults(id) ==
    /\ out' = job_results(id)
    /\ UNCHANGED <<clientVars, sessionVars, timeVars, optionVars>>

\* jobs_get(pending=...): with a pending argument the jobs are filtered on
\* their stored _status, against pending_statuses or returned_statuses;
\* without one every job is listed.  The listing is held by its job ids.
pending_statuses == {"QUEUED", "RUNNING"}
returned_statuses == {"COMPLETED", "FAILED", "CANCELLED"}
jobs_get(filtered, pending) ==
    {id \in DOMAIN _jobs :
        filtered =>
            _jobs[id]._status \in (IF pending THEN pending_statuses ELSE returned_statuses)}

\* The "jobs" list of the response: the ids of the listed jobs, in the
\* order of the dict, which is the order the jobs were created in.
RECURSIVE Listing(_, _)
Listing(n, ids) ==
    IF n = 0 THEN ""
    ELSE Listing(n - 1, ids) \o (IF uuid4(n) \in ids THEN uuid4(n) \o " " ELSE "")

JobsGet(filtered, pending) ==
    /\ out' = Returned("jobs_get", None, Listing(uuids, jobs_get(filtered, pending)))
    /\ UNCHANGED <<clientVars, sessionVars, timeVars, optionVars>>

\* job_cancel(job_id): self._get_job(job_id).cancel().
JobCancel(id) ==
    /\ IF job_cancel_error(id) = None
       THEN /\ _jobs' = [_jobs EXCEPT ![id] = cancel(_jobs[id])]
            /\ out' = Returned("job_cancel", id, None)
       ELSE /\ UNCHANGED _jobs
            /\ out' = Raised("job_cancel", id, job_cancel_error(id))
    /\ UNCHANGED <<_job_classes, _final_status, _job_kwargs, uuids, set_classes, used, _programs, program_ids>>
    /\ UNCHANGED <<sessionVars, timeVars, optionVars>>

\* job_delete(job_id).
JobDelete(id) ==
    /\ IF id \in DOMAIN _jobs
       THEN /\ _jobs' = [k \in DOMAIN _jobs \ {id} |-> _jobs[k]]
            /\ out' = Returned("job_delete", id, None)
       ELSE /\ UNCHANGED _jobs
            /\ out' = Raised("job_delete", id, "404")
    /\ UNCHANGED <<_job_classes, _final_status, _job_kwargs, uuids, set_classes, used, _programs, program_ids>>
    /\ UNCHANGED <<sessionVars, timeVars, optionVars>>

\* ------------------------------------------------------------- programs
\* BaseFakeProgram(program_id, name, ..., description, ..., is_public).
BaseFakeProgram(name, description, is_public) ==
    [_name |-> name, _description |-> description, _is_public |-> is_public]

\* x or y, for an argument that defaults to None.
Or(x, y) == IF x = None THEN y ELSE x

\* program_create(program_data, name, description, max_execution_time,
\* spec, is_public): the id is the name; 409 for an id in the registry;
\* spec.get on the default spec=None raises AttributeError.
ProgramCreate(name, description, spec, is_public) ==
    /\ IF name \in DOMAIN _programs
       THEN /\ out' = Raised("program_create", name, "409")
            /\ UNCHANGED <<_programs, program_ids>>
       ELSE IF spec = None
       THEN /\ out' = Raised("program_create", name, "AttributeError")
            /\ UNCHANGED <<_programs, program_ids>>
       ELSE /\ _programs' = _programs @@
                                (name :> BaseFakeProgram(name, description, is_public))
            /\ program_ids' = Append(program_ids, name)
            /\ out' = Returned("program_create", name, name)
    /\ UNCHANGED <<_jobs, _job_classes, _final_status, _job_kwargs, uuids, set_classes, used>>
    /\ UNCHANGED <<sessionVars, timeVars, optionVars>>

\* program_update(program_id, name=, description=).
ProgramUpdate(program_id, name, description) ==
    /\ IF program_id \notin DOMAIN _programs
       THEN /\ out' = Raised("program_update", program_id, "404")
            /\ UNCHANGED _programs
       ELSE /\ _programs' = [_programs EXCEPT
                                ![program_id]._name = Or(name, @),
                                ![program_id]._description = Or(description, @)]
            /\ out' = Returned("program_update", program_id, None)
    /\ UNCHANGED program_ids
    /\ UNCHANGED <<_jobs, _job_classes, _final_status, _job_kwargs, uuids, set_classes, used>>
    /\ UNCHANGED <<sessionVars, timeVars, optionVars>>

\* BaseFakeProgram.to_dict.
to_dict(program) ==
    "{'name': '" \o program._name \o "', 'description': '" \o program._description
        \o "', 'is_public': " \o (IF program._is_public THEN "True" ELSE "False") \o "}"

\* program_get(program_id): the program's to_dict.
ProgramGet(program_id) ==
    /\ out' = IF program_id \notin DOMAIN _programs
              THEN Raised("program_get", program_id, "404")
              ELSE Returned("program_get", program_id, to_dict(_programs[program_id]))
    /\ UNCHANGED <<clientVars, sessionVars, timeVars, optionVars>>

\* program_delete(program_id).
ProgramDelete(program_id) ==
    /\ IF program_id \notin DOMAIN _programs
       THEN /\ out' = Raised("program_delete", program_id, "404")
            /\ UNCHANGED <<_programs, program_ids>>
       ELSE /\ _programs' = [k \in DOMAIN _programs \ {program_id} |-> _programs[k]]
            /\ program_ids' = SelectSeq(program_ids, LAMBDA k : k # program_id)
            /\ out' = Returned("program_delete", program_id, None)
    /\ UNCHANGED <<_jobs, _job_classes, _final_status, _job_kwargs, uuids, set_classes, used>>
    /\ UNCHANGED <<sessionVars, timeVars, optionVars>>

\* set_program_visibility(program_id, public):
\* self._programs[program_id]._is_public = public, a KeyError for an id the
\* dict does not hold.
SetProgramVisibility(program_id, public) ==
    /\ IF program_id \notin DOMAIN _programs
       THEN /\ out' = Raised("set_program_visibility", program_id, "KeyError")
            /\ UNCHANGED _programs
       ELSE /\ _programs' = [_programs EXCEPT ![program_id]._is_public = public]
            /\ out' = Returned("set_program_visibility", program_id, None)
    /\ UNCHANGED program_ids
    /\ UNCHANGED <<_jobs, _job_classes, _final_status, _job_kwargs, uuids, set_classes, used>>
    /\ UNCHANGED <<sessionVars, timeVars, optionVars>>

\* str.lower(), character by character; the texts are two characters long.
LowerChar(c) == IF c = "D" THEN "d" ELSE c
Split(text) == CHOOSE pair \in Chars \X Chars : text = pair[1] \o pair[2]
lower(text) == LowerChar(Split(text)[1]) \o LowerChar(Split(text)[2])

\* `search in text` for a text of two characters.
In(search, text) ==
    \/ search = ""
    \/ search = text
    \/ search \in {Split(text)[1], Split(text)[2]}

\* list_programs, lines 248-253: what the loop appends for one program,
\* each to_dict held by the id of its program.
Appended(search, prog, id) ==
    (IF search = "" THEN <<id>> ELSE <<>>)
        \o (IF In(search, lower(prog._name)) \/ In(search, lower(prog._description))
            THEN <<id>> ELSE <<>>)

\* The list the loop builds over self._programs.values().
RECURSIVE Found(_, _)
Found(ids, search) ==
    IF ids = <<>> THEN <<>>
    ELSE Appended(search, _programs[Head(ids)], Head(ids)) \o Found(Tail(ids), search)

\* programs[skip:limit+skip].
Slice(programs, skip, limit) ==
    SubSeq(programs, skip + 1,
           IF limit + skip < Len(programs) THEN limit + skip ELSE Len(programs))

\* list_programs(search, limit, skip).
list_programs(search, limit, skip) ==
    [programs |-> Slice(Found(program_ids, search), skip, limit),
     count |-> Len(Found(program_ids, search))]

\* The response as text.
RECURSIVE Joined(_)
Joined(ids) == IF ids = <<>> THEN "" ELSE Head(ids) \o " " \o Joined(Tail(ids))
ListPrograms(search, limit, skip) ==
    /\ out' = Returned("list_programs", None,
                       "{'programs': [ " \o Joined(list_programs(search, limit, skip).programs)
                           \o "], 'count': "
                           \o ToString(list_programs(search, limit, skip).count) \o "}")
    /\ UNCHANGED <<clientVars, sessionVars, timeVars, optionVars>>

\* ----------------------------------------------------------- RuntimeJob
Terminal == {"COMPLETED", "FAILED", "CANCELLED", "CANCELLED - RAN TOO LONG"}

\* RuntimeJob.result(timeout, wait) against the fake client: poll job_get
\* until the status is terminal or the timeout expires, then fetch the
\* result.  "blocked" stands for a wait that has not ended yet.
result(id, expires) ==
    LET polled == job_get(id)
        fetched == job_results(id)
    IN  IF polled.err # None THEN Raised("read", id, polled.err)
        ELSE IF polled.val \notin Terminal
        THEN IF expires THEN [op |-> "read", id |-> id, err |-> "JobTimeout",
                              val |-> polled.val]
             ELSE [op |-> "blocked", id |-> id, err |-> None, val |-> None]
        ELSE IF fetched.err # None THEN Raised("read", id, fetched.err)
        ELSE IF polled.val = "COMPLETED" THEN Returned("read", id, fetched.val)
        ELSE IF polled.val = "CANCELLED"
        THEN [op |-> "read", id |-> id, err |-> "JobCancelled", val |-> fetched.val]
        ELSE [op |-> "read", id |-> id, err |-> "JobFailed", val |-> fetched.val]

\* -------------------------------------------------------- RuntimeSession
\* The _active_session decorator on write and on read: the wrapped method
\* runs only while self._active.
\* (variant: write left undecorated)
write_active_undecorated == TRUE
write_active == _active
\* (variant: read left undecorated)
read_active_undecorated == TRUE
read_active == _active

\* write, line 74: the session id handed to service.run.
write_session_id == _session_id

\* write, lines 76-77: the session id after a job came back.
\* (variant: the session id follows the latest job)
write_new_session_id_latest(job_id) == job_id
write_new_session_id(job_id) == IF _session_id = None THEN job_id ELSE _session_id

\* __exit__(exc_type, ...): the value self._active is left with.
\* (variant: the session is closed only when the block ends without an exception)
exit_active_on_success(exc_type) == IF exc_type = None THEN FALSE ELSE _active
exit_active(exc_type) == FALSE

\* How a call made by the user of the session ends for the with-statement:
\* a call that returns, or that raises outside the block or is caught
\* inside it, leaves the block where it is; an exception that leaves the
\* block runs __exit__.
Unwind(op_result) ==
    \/ UNCHANGED <<_active, scope, closed>>
    \/ /\ op_result.err # None
       /\ scope = "inside"
       /\ _active' = exit_active(op_result.err)
       /\ scope' = "after"
       /\ closed' = TRUE

\* dict.update(kwargs): the keys of kwargs replace or extend those of d.
update(d, kwargs) == [k \in Keys |-> IF kwargs[k] # Absent THEN kwargs[k] ELSE d[k]]

\* write, lines 68-69: the inputs handed to service.run are a copy of the
\* base inputs updated with kwargs.
write_inputs(kwargs) == update(_initial_inputs, kwargs)

\* What self._initial_inputs holds after lines 68-69: the update lands on
\* the copy.
\* (variant: the base dict itself is updated)
write_initial_inputs_aliased(kwargs) == update(_initial_inputs, kwargs)
write_initial_inputs(kwargs) == _initial_inputs

\* write(**kwargs): service.run reaches the client's program_run.
Write(kwargs, limit) ==
    /\ IF ~write_active
       THEN /\ out' = Raised("write", None, "RuntimeError")
            /\ Unwind(Raised("write", None, "RuntimeError"))
            /\ UNCHANGED <<_session_id, _job, runs, _initial_inputs>>
            /\ UNCHANGED clientVars
       ELSE /\ uuids < limit
            /\ _initial_inputs' = write_initial_inputs(kwargs)
            /\ program_run
            /\ IF program_run_raises
               THEN /\ out' = Raised("write", None, "TypeError")
                    /\ Unwind(Raised("write", None, "TypeError"))
                    /\ UNCHANGED <<_session_id, _job, runs>>
               ELSE /\ _job' = program_run_id
                    /\ _session_id' = write_new_session_id(program_run_id)
                    /\ runs' = Append(runs, [session_id |-> write_session_id,
                                             job_id |-> program_run_id,
                                             inputs |-> write_inputs(kwargs),
                                             kwargs |-> kwargs])
                    /\ out' = Returned("write", program_run_id, None)
                    /\ UNCHANGED <<_active, scope, closed>>
    /\ UNCHANGED <<_options, writers, timeVars, optionVars>>

\* write as the statements a calling thread executes, for callers that
\* share the session: nothing in write holds a lock.
\* Lines 70-75, the call: the decorator's check, then service.run with the
\* session id read at the call; the job that comes back is still a local.
WriteRun(t, kwargs, limit) ==
    /\ writers[t].pc = "idle"
    /\ IF ~write_active
       THEN /\ out' = Raised("write", None, "RuntimeError")
            /\ UNCHANGED <<runs, writers, _initial_inputs>>
            /\ UNCHANGED clientVars
       ELSE /\ uuids < limit
            /\ _initial_inputs' = write_initial_inputs(kwargs)
            /\ program_run
            /\ IF program_run_raises
               THEN /\ out' = Raised("write", None, "TypeError")
                    /\ UNCHANGED <<runs, writers>>
               ELSE /\ runs' = Append(runs, [session_id |-> write_session_id,
                                             job_id |-> program_run_id,
                                             inputs |-> write_inputs(kwargs),
                                             kwargs |-> kwargs])
                    /\ writers' = [writers EXCEPT ![t] = [pc |-> "run", job |-> program_run_id]]
                    /\ UNCHANGED out
    /\ UNCHANGED <<_active, _session_id, _job, scope, closed, _options>>
    /\ UNCHANGED <<timeVars, optionVars>>

\* Lines 70-75, the assignment: self._job = <the job service.run returned>.
WriteStoreJob(t) ==
    /\ writers[t].pc = "run"
    /\ _job' = writers[t].job
    /\ writers' = [writers EXCEPT ![t].pc = "stored"]
    /\ UNCHANGED <<_active, _session_id, scope, closed, runs, _options, _initial_inputs>>
    /\ UNCHANGED <<clientVars, timeVars, optionVars, out>>

\* Line 76: `if self._session_id is None`; write returns when it is not.
WriteCheck(t) ==
    /\ writers[t].pc = "stored"
    /\ IF _session_id = None
       THEN /\ writers' = [writers EXCEPT ![t].pc = "checked"]
            /\ UNCHANGED out
       ELSE /\ writers' = [writers EXCEPT ![t] = Idle]
            /\ out' = Returned("write", writers[t].job, None)
    /\ UNCHANGED <<_active, _session_id, _job, scope, closed, runs, _options, _initial_inputs>>
    /\ UNCHANGED <<clientVars, timeVars, optionVars>>

\* Line 77: self._session_id = self._job.job_id, the job self._job holds now.
WriteStoreSessionId(t) ==
    /\ writers[t].pc = "checked"
    /\ _session_id' = _job
    /\ writers' = [writers EXCEPT ![t] = Idle]
    /\ out' = Returned("write", writers[t].job, None)
    /\ UNCHANGED <<_active, _job, scope, closed, runs, _options, _initial_inputs>>
    /\ UNCHANGED <<clientVars, timeVars, optionVars>>

\* What read(timeout, wait, decoder) returns or raises.
read(expires) ==
    IF ~read_active THEN Raised("read", None, "RuntimeError")
    ELSE IF _job = None THEN Raised("read", None, "AttributeError")
    ELSE result(_job, expires)

Read(expires) ==
    /\ read(expires).op # "blocked"
    /\ out' = read(expires)
    /\ Unwind(read(expires))
    /\ UNCHANGED <<_session_id, _job, runs>>
    /\ UNCHANGED <<clientVars, ctorVars, writers, timeVars, optionVars>>

\* self._options.backend_name: an attribute of a RuntimeOptions object; None
\* and a dict have no such attribute.
HasBackendName(options) == options \in {RuntimeOptionsDefault, RuntimeOptionsBackend}
backend_name(options) ==
    IF options = RuntimeOptionsBackend THEN "ibmq_qasm_simulator" ELSE None

\* RuntimeJob.status(): the status job_get reports.
JobStatus(id) == job_get(id)

\* The dict info() builds: "backend", and "job id" and "job status" when
\* a job is stored.
InfoDict(backend, job_id, job_status) ==
    "{'backend': '" \o backend \o "'"
        \o (IF job_id = None THEN ""
            ELSE ", 'job id': '" \o job_id \o "', 'job status': '" \o job_status \o "'")
        \o "}"

\* What info() returns or raises.
info ==
    IF ~HasBackendName(_options) THEN Raised("info", None, "AttributeError")
    ELSE IF _job = None
    THEN Returned("info", None, InfoDict(Or(backend_name(_options), "unknown"), None, None))
    ELSE IF JobStatus(_job).err # None THEN Raised("info", _job, JobStatus(_job).err)
    ELSE Returned("info", _job, InfoDict(Or(backend_name(_options), "unknown"),
                                         _job, JobStatus(_job).val))

Info ==
    /\ out' = info
    /\ UNCHANGED <<sessionVars, clientVars, timeVars, optionVars>>

\* close().
Close ==
    /\ _active' = FALSE
    /\ closed' = TRUE
    /\ out' = Returned("close", None, None)
    /\ UNCHANGED <<_session_id, _job, scope, runs>>
    /\ UNCHANGED <<clientVars, ctorVars, writers, timeVars, optionVars>>

\* __enter__: `with session as s:` binds s to the session itself.
Enter ==
    /\ scope # "inside"
    /\ scope' = "inside"
    /\ out' = Returned("__enter__", None, "self")
    /\ UNCHANGED <<_active, _session_id, _job, closed, runs>>
    /\ UNCHANGED <<clientVars, ctorVars, writers, timeVars, optionVars>>

\* __exit__ when the block ends without an exception.
Exit ==
    /\ scope = "inside"
    /\ scope' = "after"
    /\ _active' = exit_active(None)
    /\ closed' = TRUE
    /\ out' = Returned("__exit__", None, None)
    /\ UNCHANGED <<_session_id, _job, runs>>
    /\ UNCHANGED <<clientVars, ctorVars, writers, timeVars, optionVars>>

\* ------------------------------------------------------- EstimatorOptions
_MAX_OPTIMIZATION_LEVEL == 3
_MAX_RESILIENCE_LEVEL == 3

\* @skip_unset_validation: the wrapped validator does not run on Unset.
skip_unset_validation(value, valid) == ~value.set \/ valid

\* The field validators: whether the value passes.
_validate_optimization_level(value) ==
    skip_unset_validation(value, 0 <= value.v /\ value.v <= 3)
_validate_resilience_level(value) ==
    skip_unset_validation(value, 0 <= value.v /\ value.v <= _MAX_RESILIENCE_LEVEL)

\* _validate_options, the mode="after" model validator: whether it raises
\* on the instance as it stands.
\* (variant: the coupling map is not looked at)
_validate_options_raises_without_map == resilience_level = Value(3) /\ _is_simulator
_validate_options_raises ==
    /\ resilience_level = Value(3)
    /\ _is_simulator
    /\ ~coupling_map.set

\* An assignment under validate_assignment=True.  A value its field rejects
\* is not stored.  A value its field accepts is stored in the instance, and
\* the model validator then runs on the instance itself: when it raises,
\* the assignment raises with the new value in place.
Rejected(field) ==
    /\ out' = Raised("set", field, "ValidationError")
    /\ UNCHANGED optionVars
Stored(field) ==
    out' = IF _validate_options_raises' THEN Raised("set", field, "ValidationError")
           ELSE Returned("set", field, None)

\* options.optimization_level = value
SetOptimizationLevel(value) ==
    /\ IF _validate_optimization_level(value)
       THEN /\ optimization_level' = value
            /\ UNCHANGED <<resilience_level, _is_simulator, coupling_map>>
            /\ Stored("optimization_level")
       ELSE Rejected("optimization_level")
    /\ UNCHANGED <<sessionVars, clientVars, timeVars>>

\* options.resilience_level = value
SetResilienceLevel(value) ==
    /\ IF _validate_resilience_level(value)
       THEN /\ resilience_level' = value
            /\ UNCHANGED <<optimization_level, _is_simulator, coupling_map>>
            /\ Stored("resilience_level")
       ELSE Rejected("resilience_level")
    /\ UNCHANGED <<sessionVars, clientVars, timeVars>>

\* options._is_simulator = flag
SetIsSimulator(flag) ==
    /\ _is_simulator' = flag
    /\ UNCHANGED <<optimization_level, resilience_level, coupling_map>>
    /\ Stored("_is_simulator")
    /\ UNCHANGED <<sessionVars, clientVars, timeVars>>

\* options.simulator = SimulatorOptions(coupling_map=value)
SetCouplingMap(value) ==
    /\ coupling_map' = value
    /\ UNCHANGED <<optimization_level, resilience_level, _is_simulator>>
    /\ Stored("simulator")
    /\ UNCHANGED <<sessionVars, clientVars, timeVars>>

\* ------------------------------------------------------------------- time
\* Statements take no time and a sleep takes its duration: the clock stands
\* still while a task is due to run.  The executor has an idle worker for the
\* task of a job just submitted; a TimedRuntimeJob task writes RUNNING at once
\* and the rest when time.sleep(self._runtime) has returned.
TaskDue(id) ==
    \/ _jobs[id]._future = "PENDING"
    \/ /\ _jobs[id]._future = "RUNNING"
       /\ _jobs[id].pc >= 1 => now >= wake[id]

\* TimedRuntimeJob._auto_progress, statement by statement.
TimedTaskStep(id) ==
    /\ id \in DOMAIN _jobs
    /\ _jobs[id].cls = Timed
    /\ _jobs[id]._future = "RUNNING"
    /\ _jobs[id].pc >= 1 => now >= wake[id]
    /\ LET j == _jobs[id]
           prog == _auto_progress(j.cls)
           after == [Execute(prog[j.pc + 1], j) EXCEPT !.pc = j.pc + 1]
       IN  _jobs' = [_jobs EXCEPT ![id] =
                        IF after.pc = Len(prog)
                        THEN [after EXCEPT !._future = "FINISHED"] ELSE after]
    /\ wake' = IF _jobs[id].pc = 0 THEN wake @@ (id :> now + run_time) ELSE wake
    /\ UNCHANGED <<_job_classes, _final_status, _job_kwargs, uuids, set_classes, used, _programs, program_ids>>
    /\ UNCHANGED <<sessionVars, optionVars, now, wait, out>>

\* read(timeout=timeout) is called: a closed session or one without a job
\* raises at once, otherwise the caller starts to wait.
ReadBegin(timeout) ==
    /\ ~wait.open
    /\ IF ~read_active \/ _job = None
       THEN /\ out' = read(TRUE)
            /\ Unwind(read(TRUE))
            /\ UNCHANGED wait
       ELSE /\ wait' = [open |-> TRUE, since |-> now, timeout |-> timeout]
            /\ out' = read(FALSE)
            /\ UNCHANGED <<_active, scope, closed>>
    /\ UNCHANGED <<_session_id, _job, runs, now, wake>>
    /\ UNCHANGED <<clientVars, ctorVars, writers, optionVars>>

\* Whether the timeout of the wait in progress has elapsed.
Expired == now - wait.since >= wait.timeout

\* The wait ends: the status polled is final, or the timeout has elapsed.
ReadEnd ==
    /\ wait.open
    /\ read(Expired).op # "blocked"
    /\ out' = read(Expired)
    /\ Unwind(read(Expired))
    /\ wait' = [wait EXCEPT !.open = FALSE]
    /\ UNCHANGED <<_session_id, _job, runs, now, wake>>
    /\ UNCHANGED <<clientVars, ctorVars, writers, optionVars>>

\* A second passes: nothing is due at this instant.
Tick ==
    /\ now < MaxTime
    /\ \A id \in DOMAIN _jobs : ~TaskDue(id)
    /\ ~(wait.open /\ read(Expired).op # "blocked")
    /\ now' = now + 1
    /\ UNCHANGED <<sessionVars, clientVars, optionVars, wake, wait, out>>

\* ------------------------------------------------------- specifications
\* The state after RuntimeSession(runtime, program_id, inputs, options), a
\* fresh BaseFakeRuntimeClient and a default EstimatorOptions().
Constructed(options) ==
    /\ _options = options
    /\ _initial_inputs = Inputs
    /\ _active = TRUE
    /\ _session_id = None
    /\ _job = None
    /\ scope = "before"
    /\ closed = FALSE
    /\ runs = <<>>
    /\ writers = [t \in Threads |-> Idle]
    /\ _jobs = <<>>
    /\ _job_classes = <<>>
    /\ _final_status = None
    /\ _job_kwargs \in {NoKwargs, RunTimeKwargs}
    /\ uuids = 0
    /\ set_classes = <<>>
    /\ used = <<>>
    /\ _programs = <<>>
    /\ program_ids = <<>>
    /\ now = 0
    /\ wake = <<>>
    /\ wait = NoWait
    /\ optimization_level = Unset
    /\ resilience_level = Unset
    /\ _is_simulator = FALSE
    /\ coupling_map = Unset
    /\ out = Returned("__init__", None, None)

\* options defaults to None.
Init == Constructed(None)

Ids(limit) == {uuid4(n) : n \in 1..limit}

\* The life of jobs on the fake client, driven through its API.
Next ==
    \/ uuids < MaxJobs /\ \E cls \in JobClasses : SetJobClasses(FALSE, cls)
    \/ uuids < MaxJobs /\ \E final_status \in FinalStatuses : SetFinalStatus(final_status)
    \/ ProgramRun(MaxJobs)
    \/ \E id \in Ids(MaxJobs) : StartTask(id)
    \/ \E id \in Ids(MaxJobs) : TaskStep(id)
    \/ \E id \in Ids(MaxJobs) : JobGet(id)
    \/ \E filtered, pending \in BOOLEAN : JobsGet(filtered, pending)
    \/ \E id \in Ids(MaxJobs) : JobResults(id)
    \/ \E id \in Ids(MaxJobs) : JobCancel(id)
    \/ \E id \in Ids(MaxJobs) : JobDelete(id)

Spec == Init /\ [][Next]_vars

\* One session used by one caller, its jobs progressing on the executor.
NextSession ==
    \/ Write(NoOverrides, MaxWrites)
    \/ \E expires \in BOOLEAN : Read(expires)
    \/ Close
    \/ Enter
    \/ Exit
    \/ \E id \in Ids(MaxWrites) : StartTask(id)
    \/ \E id \in Ids(MaxWrites) : TaskStep(id)

SpecSession == Init /\ [][NextSession]_vars

\* The lists of job classes a test hands to set_job_classes.
ListedClasses == {Failed, Cancelable, Timed}
ClassLists == UNION {[1..n -> ListedClasses] : n \in 0..MaxClasses}

\* Jobs submitted while the test keeps resetting the queue of job classes.
NextFifo ==
    \/ uuids < MaxRuns /\ \E classes \in ClassLists : SetJobClasses(TRUE, classes)
    \/ ProgramRun(MaxRuns)
    \/ \E id \in Ids(MaxRuns) : StartTask(id)
    \/ \E id \in Ids(MaxRuns) : TaskStep(id)

SpecFifo == Init /\ [][NextFifo]_vars

\* One session over TimedRuntimeJob jobs, with a clock: the caller waits
\* for results with a timeout while the task of the job sleeps.
InitTimed == Init /\ _job_kwargs = RunTimeKwargs

NextTimed ==
    \/ uuids < MaxTimedWrites /\ SetJobClasses(FALSE, Timed)
    \/ ~wait.open /\ Write(NoOverrides, MaxTimedWrites)
    \/ \E timeout \in 1..MaxTimeout : ReadBegin(timeout)
    \/ ReadEnd
    \/ \E id \in Ids(MaxTimedWrites) : StartTask(id)
    \/ \E id \in Ids(MaxTimedWrites) : TimedTaskStep(id)
    \/ Tick

SpecTimed == InitTimed /\ [][NextTimed]_vars

\* One session, constructed with any of the options, asked for its info
\* before and after a write and a close.
InitInfo == \E options \in SessionOptions : Constructed(options)

NextInfo ==
    \/ Write(NoOverrides, MaxInfoWrites)
    \/ \E expires \in BOOLEAN : Read(expires)
    \/ Close
    \/ Info
    \/ \E id \in Ids(MaxInfoWrites) : StartTask(id)
    \/ \E id \in Ids(MaxInfoWrites) : TaskStep(id)

SpecInfo == InitInfo /\ [][NextInfo]_vars

\* The two registries of the fake client, driven through its API.
NextRegistry ==
    \/ \E name \in ProgramNames, description \in Descriptions,
          spec \in {None, SpecDict}, is_public \in BOOLEAN :
            ProgramCreate(name, description, spec, is_public)
    \/ \E program_id \in ProgramNames, name \in {None} \cup ProgramNames,
          description \in {None} \cup Descriptions :
            ProgramUpdate(program_id, name, description)
    \/ \E program_id \in ProgramNames : ProgramGet(program_id)
    \/ \E program_id \in ProgramNames : ProgramDelete(program_id)
    \/ \E program_id \in ProgramNames, public \in BOOLEAN :
            SetProgramVisibility(program_id, public)
    \/ uuids < MaxJobs /\ SetJobClasses(FALSE, Cancelable)
    \/ ProgramRun(MaxJobs)
    \/ \E id \in Ids(MaxJobs) : JobGet(id)
    \/ \E id \in Ids(MaxJobs) : JobResults(id)
    \/ \E id \in Ids(MaxJobs) : JobCancel(id)
    \/ \E id \in Ids(MaxJobs) : JobDelete(id)

SpecRegistry == Init /\ [][NextRegistry]_vars

\* The values a caller assigns to a level and to the coupling map.
LevelInputs == {Unset} \cup {Value(n) : n \in -1..MaxLevel}
CouplingMaps == {Unset, Value(1)}

\* One EstimatorOptions instance mutated field by field.
NextOptions ==
    \/ \E value \in LevelInputs : SetOptimizationLevel(value)
    \/ \E value \in LevelInputs : SetResilienceLevel(value)
    \/ \E flag \in BOOLEAN : SetIsSimulator(flag)
    \/ \E value \in CouplingMaps : SetCouplingMap(value)

SpecOptions == Init /\ [][NextOptions]_vars

\* One session whose jobs progress on the shared ThreadPoolExecutor: the
\* executor starts every task it was handed, and a started task runs each
\* statement of _auto_progress after a sleep that ends.
NextProgress ==
    \/ uuids < MaxFairWrites /\ \E cls \in JobClasses : SetJobClasses(FALSE, cls)
    \/ Write(NoOverrides, MaxFairWrites)
    \/ Read(FALSE)
    \/ Close
    \/ \E id \in Ids(MaxFairWrites) : StartTask(id)
    \/ \E id \in Ids(MaxFairWrites) : TaskStep(id)

SpecProgress ==
    /\ Init
    /\ [][NextProgress]_vars
    /\ \A id \in Ids(MaxFairWrites) : WF_vars(StartTask(id)) /\ WF_vars(TaskStep(id))

\* One session written to with varying keyword arguments.
NextInputs ==
    \/ \E kwargs \in Overrides : Write(kwargs, MaxInputWrites)
    \/ Close
    \/ Enter
    \/ Exit

SpecInputs == Init /\ [][NextInputs]_vars

\* One session shared by threads whose write calls overlap.
NextOverlap ==
    \/ \E t \in Threads : WriteRun(t, NoOverrides, MaxOverlapWrites)
    \/ \E t \in Threads : WriteStoreJob(t)
    \/ \E t \in Threads : WriteCheck(t)
    \/ \E t \in Threads : WriteStoreSessionId(t)

SpecOverlap == Init /\ [][NextOverlap]_vars

\* The program registry, created, edited, deleted and listed.
NextPrograms ==
    \/ \E name \in ProgramNames, description \in Descriptions :
            ProgramCreate(name, description, SpecDict, FALSE)
    \/ \E program_id \in ProgramNames, name \in {None} \cup ProgramNames,
          description \in {None} \cup Descriptions :
            ProgramUpdate(program_id, name, description)
    \/ \E program_id \in ProgramNames : ProgramDelete(program_id)
    \/ \E search \in Searches, limit \in 0..MaxLimit, skip \in 0..MaxLimit :
            ListPrograms(search, limit, skip)

SpecPrograms == Init /\ [][NextPrograms]_vars

\* ------------------------------------------------------------- properties
\* C1: every job a session submits carries the session's current session id:
\* the first one is submitted with session_id = None and every later one
\* with the job id the first write got back.
C1_RunsShareFirstJobId ==
    \A k \in 1..Len(runs) :
        runs[k].session_id = IF k = 1 THEN None ELSE runs[1].job_id

\* Three jobs submitted by one session, the third under the first one's id.
C1_Witness ==
    /\ Len(runs) >= 3
    /\ runs[3].session_id = runs[1].job_id
    /\ _session_id = runs[1].job_id

\* C2: a read made after close() or after the with-block was left raises the
\* closed-session error whatever happened before, also when the stored job
\* has completed; it returns no payload and touches nothing on the client.
C2_ReadAfterCloseRaises ==
    [][(closed /\ \E expires \in BOOLEAN : Read(expires))
          => /\ out' = Raised("read", None, "RuntimeError")
             /\ UNCHANGED <<_session_id, _job, runs>>
             /\ UNCHANGED clientVars]_vars

\* A closed session whose stored job completed, read from.
C2_Witness ==
    /\ closed
    /\ _job # None
    /\ job_get(_job).val = "COMPLETED"
    /\ job_results(_job).val = Foo
    /\ out = Raised("read", None, "RuntimeError")

\* C3: a closed session stays inactive and submits nothing: from a closed
\* session no step re-activates it, adds a job or a run, or changes the
\* stored job or the session id, and a write raises the closed-session error.
C3_ClosedSessionIsInert ==
    [][closed
          => /\ ~_active'
             /\ UNCHANGED <<_session_id, _job, runs, uuids, _job_classes>>
             /\ DOMAIN _jobs' = DOMAIN _jobs
             /\ (Write(NoOverrides, MaxWrites) => out' = Raised("write", None, "RuntimeError"))]_vars

\* A write refused by a closed session that had submitted a job before.
C3_Witness ==
    /\ closed
    /\ _job # None
    /\ Len(runs) >= 1
    /\ out = Raised("write", None, "RuntimeError")

\* C4: __enter__ hands back the session and changes nothing of it, and a
\* with-block that was left, by reaching its end or by an exception raised
\* inside it, has left the session closed.
C4_ScopeExitCloses ==
    /\ [](scope = "after" => ~_active)
    /\ [][Enter => /\ out'.val = "self"
                   /\ UNCHANGED <<_active, _session_id, _job, runs>>]_vars
    /\ [][(scope = "inside" /\ scope' = "after") => ~_active']_vars

\* A with-block left by the timeout a read raised while the job was running.
C4_Witness ==
    /\ scope = "after"
    /\ out.op = "read"
    /\ out.err = "JobTimeout"
    /\ ~_active

\* The place of a status on the path QUEUED, RUNNING, terminal.
Rank(status) == CASE status = "QUEUED" -> 1 [] status = "RUNNING" -> 2 [] OTHER -> 3

\* A job of the default class submitted with no final status preset.
DefaultProfile(id) == _jobs[id].cls = Base /\ _jobs[id]._future # NoAttr

\* C5: for a default-profile job a result fetch never fails, a payload is
\* fetched only while the status reads COMPLETED, nothing is fetched while
\* it reads QUEUED or RUNNING, and the status read only ever moves along
\* QUEUED, RUNNING, COMPLETED.
C5_ResultOnlyWhenCompleted ==
    /\ [](\A id \in DOMAIN _jobs :
            DefaultProfile(id)
              => /\ job_get(id).val \in {"QUEUED", "RUNNING", "COMPLETED"}
                 /\ job_results(id).err = None
                 /\ job_results(id).val # None => job_get(id).val = "COMPLETED"
                 /\ job_get(id).val \in {"QUEUED", "RUNNING"}
                       => job_results(id) = Returned("job_results", id, None))
    /\ [][\A id \in DOMAIN _jobs \cap DOMAIN _jobs' :
            DefaultProfile(id)
              => Rank(job_get(id).val) <= Rank(job_get(id).val')]_vars

\* The payload of a completed default-profile job, fetched.
C5_Witness ==
    \E id \in DOMAIN _jobs :
        /\ DefaultProfile(id)
        /\ job_get(id).val = "COMPLETED"
        /\ out = Returned("job_results", id, Foo)

\* C6: for every job class, with or without a preset final status, the
\* status job_get reports never moves back along QUEUED, RUNNING, terminal,
\* and a terminal status once reported is reported ever after.
C6_StatusNeverRegresses ==
    [][\A id \in DOMAIN _jobs \cap DOMAIN _jobs' :
          /\ Rank(job_get(id).val) <= Rank(job_get(id).val')
          /\ job_get(id).val \in Terminal => job_get(id).val' = job_get(id).val]_vars

\* A cancelled job whose task went on to write the stored status.
C6_Witness ==
    \E id \in DOMAIN _jobs :
        /\ job_get(id).val = "CANCELLED"
        /\ _jobs[id]._status = "RUNNING"
        /\ _jobs[id]._future = "FINISHED"

Finished(id) == job_get(id).val = "COMPLETED" \/ _jobs[id]._future = "FINISHED"

\* C8: a cancel request on a finished job raises nothing and leaves the
\* status and the result the job reports as they were.
C8_CancelFinishedIsNoOp ==
    [][\A id \in DOMAIN _jobs :
          (Finished(id) /\ JobCancel(id))
            => /\ out'.err = None
               /\ job_get(id).val' = job_get(id).val
               /\ job_results(id).val' = job_results(id).val]_vars

\* C9: once a cancel request has returned, the job's progression task
\* executes no further statement: the stored status and result stay as they
\* are.
C9_CancelStopsTask ==
    [][\A id \in DOMAIN _jobs \cap DOMAIN _jobs' :
          _jobs[id]._cancelled
            => /\ _jobs[id].pc' = _jobs[id].pc
               /\ _jobs[id]._status' = _jobs[id]._status
               /\ _jobs[id]._result' = _jobs[id]._result]_vars

\* The class the k-th program_run after set_job_classes(set_classes) is to use.
Profile(k) == IF k <= Len(set_classes) THEN set_classes[k] ELSE Base

\* C10: after the queue is set to p1..pn, the k-th submission builds its job
\* from pk for k <= n and from the default class for k > n, and takes
\* exactly one class off the head of a non-empty queue.
C10_ProfilesFifo ==
    /\ \A k \in 1..Len(used) :
          /\ used[k] = Profile(k)
          /\ LET id == uuid4(uuids - Len(used) + k)
             IN  id \in DOMAIN _jobs => _jobs[id].cls = Profile(k)
    /\ _job_classes = SubSeq(set_classes, Len(used) + 1, Len(set_classes))

\* Two different classes queued and consumed in order by two submissions.
C10_Witness ==
    /\ set_classes = <<Failed, Cancelable>>
    /\ used = set_classes
    /\ _job_classes = <<>>
    /\ {uuid4(uuids - 1), uuid4(uuids)} \subseteq DOMAIN _jobs
    /\ _jobs[uuid4(uuids - 1)].cls = Failed
    /\ _jobs[uuid4(uuids)].cls = Cancelable


\* C11: a result wait on a TimedRuntimeJob whose timeout ends before the
\* job's run time is over ends with the timeout error while the job reads
\* RUNNING, and leaves the job as it is; the job is COMPLETED with its
\* payload once its run time is over; and a wait whose timeout ends after
\* the run time is over returns that payload.
TimeoutRaised(id) == [op |-> "read", id |-> id, err |-> "JobTimeout", val |-> "RUNNING"]
C11_TimeoutLeavesJobRunning ==
    /\ [](\A id \in DOMAIN wake :
            now > wake[id] =>
                _jobs[id]._status = "COMPLETED" /\ _jobs[id]._result = Foo)
    /\ [][ReadEnd /\ _job \in DOMAIN wake =>
            /\ wait.since + wait.timeout < wake[_job] =>
                    out' = TimeoutRaised(_job) /\ _jobs' = _jobs
            /\ wait.since + wait.timeout > wake[_job] =>
                    out' = Returned("read", _job, Foo)]_vars


\* C12: on an options instance flagged as simulator, assigning
\* resilience_level = 3 raises whenever no coupling map is set, and when a
\* coupling map is set the assignment succeeds and resilience_level is 3.
C12_LevelThreeNeedsCouplingMap ==
    [][SetResilienceLevel(Value(3)) /\ _is_simulator =>
          IF coupling_map.set
          THEN out' = Returned("set", "resilience_level", None)
               /\ resilience_level' = Value(3)
          ELSE out' = Raised("set", "resilience_level", "ValidationError")]_vars

C12_Witness ==
    /\ _is_simulator
    /\ coupling_map.set
    /\ resilience_level = Value(3)
    /\ out = Returned("set", "resilience_level", None)


\* C13: optimization_level and resilience_level are each Unset or an
\* integer from 0 to 3 whatever was assigned, and an assignment of Unset to
\* either of them never raises.
LevelsInRange == {Unset} \cup {Value(n) : n \in 0..3}
C13_LevelsInRangeUnsetAccepted ==
    /\ [](optimization_level \in LevelsInRange /\ resilience_level \in LevelsInRange)
    /\ [][SetOptimizationLevel(Unset) \/ SetResilienceLevel(Unset) =>
            out'.err = None]_vars

\* C14: an assignment that raises, for a value out of range or for the
\* rule across fields, leaves every option as it was.
C14_RejectedAssignmentChangesNothing ==
    [][NextOptions /\ out'.err = "ValidationError" => UNCHANGED optionVars]_vars

\* C15: no instance has resilience_level 3 and the simulator flag and no
\* coupling map; on an instance with resilience_level 3, turning the
\* simulator flag on without a coupling map raises, and so does unsetting
\* the coupling map under the simulator flag.
C15_RuleHoldsAfterEveryMutation ==
    /\ [] ~(resilience_level = Value(3) /\ _is_simulator /\ ~coupling_map.set)
    /\ [][resilience_level = Value(3) =>
            /\ SetIsSimulator(TRUE) /\ ~coupling_map.set =>
                    out' = Raised("set", "_is_simulator", "ValidationError")
            /\ SetCouplingMap(Unset) /\ _is_simulator =>
                    out' = Raised("set", "simulator", "ValidationError")]_vars


\* C16: program_create for an id the program registry holds raises 409 and
\* leaves the registry as it is; for a new id it leaves the registry with
\* that one record more, under that id.
C16_CreateConflictsOrAddsOne ==
    [][\A name \in ProgramNames, description \in Descriptions,
         spec \in {None, SpecDict}, is_public \in BOOLEAN :
          ProgramCreate(name, description, spec, is_public) =>
              IF name \in DOMAIN _programs
              THEN out' = Raised("program_create", name, "409")
                   /\ _programs' = _programs
              ELSE /\ DOMAIN _programs' = DOMAIN _programs \cup {name}
                   /\ \A k \in DOMAIN _programs : _programs'[k] = _programs[k]
                   /\ out'.err = None]_vars


\* C17: program get, update, delete and set-visibility for an id the
\* program registry does not hold, and job get, result fetch, cancel and
\* delete for an id the job registry does not hold, raise 404 and leave
\* both registries as they are.
C17_UnknownIdRaisesNotFound ==
    [][/\ \A program_id \in ProgramNames \ DOMAIN _programs :
            \/ ProgramGet(program_id)
            \/ \E name \in {None} \cup ProgramNames,
                  description \in {None} \cup Descriptions :
                    ProgramUpdate(program_id, name, description)
            \/ ProgramDelete(program_id)
            \/ \E public \in BOOLEAN : SetProgramVisibility(program_id, public)
            => out'.err = "404" /\ UNCHANGED <<_programs, _jobs>>
       /\ \A id \in Ids(MaxJobs) \ DOMAIN _jobs :
            JobGet(id) \/ JobResults(id) \/ JobCancel(id) \/ JobDelete(id)
            => out'.err = "404" /\ UNCHANGED <<_programs, _jobs>>]_vars


\* C18: for every job in the registry, of any class and created with or
\* without a final status, job_results raises nothing: it returns a payload
\* of the job's class, or None.
C18_ResultFetchNeverFails ==
    \A id \in DOMAIN _jobs :
        /\ job_results(id).err = None
        /\ job_results(id).val \in {None, Foo, Kaboom, Bar}

\* C19: jobs_get(pending=True) lists exactly the jobs job_get reports as
\* QUEUED or RUNNING, jobs_get(pending=False) exactly those it reports in a
\* final status, and every job is in exactly one of the two listings.
C19_PendingFilterPartitions ==
    /\ jobs_get(TRUE, TRUE) =
            {id \in DOMAIN _jobs : job_get(id).val \in {"QUEUED", "RUNNING"}}
    /\ jobs_get(TRUE, FALSE) = {id \in DOMAIN _jobs : job_get(id).val \in Terminal}
    /\ jobs_get(TRUE, TRUE) \cap jobs_get(TRUE, FALSE) = {}
    /\ jobs_get(TRUE, TRUE) \cup jobs_get(TRUE, FALSE) = DOMAIN _jobs


\* C20: info() on a session, before a write, after one and after close,
\* returns the backend and, when a job is stored, the job's id and the
\* status it reports, and changes nothing of the session or of the client.
C20_InfoIsAPureRead ==
    [][Info =>
          /\ out'.err = None
          /\ out'.val = InfoDict(Or(backend_name(_options), "unknown"), _job,
                                 IF _job = None THEN None ELSE job_get(_job).val)
          /\ UNCHANGED <<sessionVars, clientVars>>]_vars


\* The job classes whose _auto_progress ends in a final status.
Progressing == {Base, Failed, RanTooLong, CustomResult, Timed}
Submitted(id) == id \in DOMAIN _jobs /\ _jobs[id].cls \in Progressing

\* C21: with the progression tasks scheduled fairly, every job submitted
\* with no preset final status and a default, failed, ran-too-long,
\* custom-result or timed class eventually reports COMPLETED, FAILED or
\* CANCELLED - RAN TOO LONG, and from then on a result() call with no
\* timeout on it no longer blocks.
C21_SubmittedJobsReachFinalStatus ==
    \A id \in Ids(MaxFairWrites) :
        Submitted(id) ~>
            [](/\ job_get(id).val \in {"COMPLETED", "FAILED", "CANCELLED - RAN TOO LONG"}
               /\ result(id, FALSE).op # "blocked")

\* A session read with no timeout that came back for a failed job.
C21_Witness ==
    /\ out.op = "read"
    /\ out.err = "JobFailed"
    /\ Submitted(out.id)
    /\ _jobs[out.id]._future = "FINISHED"

\* The final status a job class reports, and whether a fetch of the result
\* of job id returns something.
FinalStatus(cls) == _job_progress(cls)[Len(_job_progress(cls))]
HasPayload(id) == job_results(id).err = None /\ job_results(id).val # None

\* C23: for a job submitted with no preset final status, whenever job_get
\* reports the final status of its class (COMPLETED, FAILED or CANCELLED -
\* RAN TOO LONG), job_results returns a payload and not None.
C23_ReportedFinalStatusHasPayload ==
    \A id \in DOMAIN _jobs :
        (/\ _jobs[id].cls \in Progressing
         /\ _jobs[id]._future # NoAttr
         /\ job_get(id).val = FinalStatus(_jobs[id].cls))
            => HasPayload(id)

\* C24: write leaves the base inputs as they were given at construction,
\* and the inputs each write submitted are those base inputs with the
\* keys of that call's kwargs replaced, whatever earlier writes passed.
C24_WritesOverlayBaseInputs ==
    /\ _initial_inputs = Inputs
    /\ \A k \in 1..Len(runs) : runs[k].inputs = update(Inputs, runs[k].kwargs)

\* A write that replaced a base key, followed by a write without overrides
\* that submitted the base inputs.
C24_Witness ==
    /\ Len(runs) >= 2
    /\ runs[1].kwargs.circuits = "c2"
    /\ runs[1].inputs.circuits = "c2"
    /\ runs[2].kwargs = NoOverrides
    /\ runs[2].inputs = Inputs

\* The jobs submitted with session_id = None.
SubmittedWithoutSession == {k \in 1..Len(runs) : runs[k].session_id = None}

\* C22: under every interleaving of the write calls of threads sharing a
\* session, the session id is None until a job came back, never changes
\* once it holds a job id, and at most one job is submitted with
\* session_id = None.
C22_SessionIdWriteOnce ==
    /\ [](runs = <<>> => _session_id = None)
    /\ [](Cardinality(SubmittedWithoutSession) <= 1)
    /\ [][_session_id # None => _session_id' = _session_id]_vars

\* The registered programs whose name or description, lowercased as the
\* listing does, contains the search text, each once, in registry order.
Matching(search) ==
    SelectSeq(program_ids,
              LAMBDA id : \/ In(search, lower(_programs[id]._name))
                          \/ In(search, lower(_programs[id]._description)))

\* C25: for every search text, the empty one included, the listing holds
\* each registered program at most once: the count is the number of
\* matching programs and the page is the slice [skip, skip+limit) of them.
C25_ListingIsMatchingPrograms ==
    \A search \in Searches, limit \in 0..MaxLimit, skip \in 0..MaxLimit :
        /\ list_programs(search, limit, skip).count = Len(Matching(search))
        /\ list_programs(search, limit, skip).programs = Slice(Matching(search), skip, limit)
=============================================================================
